---- MODULE Spec2Model ----
(***************************************************************************)
(* CHIP-8 interpreter core (src/src/chip8/mod.rs).                         *)
(*                                                                         *)
(* The machine state is the Chip8 struct.  A host creates it with          *)
(* new(quirks), copies a program image with load_rom(data) and then calls  *)
(* tick(keypad) and update_timers() in any interleaving.  A Rust panic     *)
(* (array index out of range, checked integer overflow) ends the process:  *)
(* it is recorded in the flag `panicked`, after which nothing runs.        *)
(***************************************************************************)
EXTENDS Integers, Sequences, FiniteSets, TLC

VARIABLES memory, v, pc, i, stack, sp, timer_delay, timer_sound, display,
          quirks, panicked, last_call, prev, ret_addrs, base_sp, returns,
          written, elapsed, arg_quirks, arg_data,
          target_cycles_per_second, sleep_duration, host_at, since_decrement,
          observed, snapshot, tapped, overlooked

vars == <<memory, v, pc, i, stack, sp, timer_delay, timer_sound, display,
          quirks, panicked, last_call, prev, ret_addrs, base_sp, returns,
          written, elapsed, arg_quirks, arg_data,
          target_cycles_per_second, sleep_duration, host_at, since_decrement,
          observed, snapshot, tapped, overlooked>>

(* The variables of the host program (src/src/main.rs); the calls on the   *)
(* core leave them alone.                                                  *)
host_vars == <<target_cycles_per_second, sleep_duration, host_at,
               since_decrement, observed, snapshot, tapped, overlooked>>

----------------------------------------------------------------------------
(* Sizes of the arrays of the Chip8 struct. *)

MEMORY_LEN == 4096
V_LEN == 16
STACK_LEN == 16
DISPLAY_LEN == 2048
KEYPAD_LEN == 16
ROM_START == 512
U8 == 256
U16 == 65536

FONT_SET ==
  << 240, 144, 144, 144, 240,
      32,  96,  32,  32, 112,
     240,  16, 240, 128, 240,
     240,  16, 240,  16, 240,
     144, 144, 240,  16,  16,
     240, 128, 240,  16, 240,
     240, 128, 240, 144, 240,
     240,  16,  32,  64,  64,
     240, 144, 240, 144, 240,
     240, 144, 240,  16, 240,
     240, 144, 240, 144, 144,
     224, 144, 224, 144, 224,
     240, 128, 128, 128, 240,
     224, 144, 144, 144, 224,
     240, 128, 240, 128, 240,
     240, 128, 240, 128, 128 >>

----------------------------------------------------------------------------
(* Bit arithmetic on bytes. *)

Bit(n, k) == (n \div (2 ^ k)) % 2

RECURSIVE Bitwise(_, _, _, _)
Bitwise(op, a, b, k) ==
  IF k = 8 THEN 0
  ELSE LET ba == Bit(a, k)
           bb == Bit(b, k)
           r  == CASE op = "or"  -> IF ba + bb > 0 THEN 1 ELSE 0
                   [] op = "and" -> ba * bb
                   [] op = "xor" -> (ba + bb) % 2
       IN  r * (2 ^ k) + Bitwise(op, a, b, k + 1)

Or8(a, b) == Bitwise("or", a, b, 0)
And8(a, b) == Bitwise("and", a, b, 0)
Xor8(a, b) == Bitwise("xor", a, b, 0)

----------------------------------------------------------------------------
(* The two large arrays are held by their non-zero elements: `memory` is  *)
(* the function from the addresses whose byte is not 0 to that byte, and   *)
(* every other address of 0..MEMORY_LEN-1 holds 0; `display` is the set of *)
(* the indices in 0..DISPLAY_LEN-1 whose pixel is 1.                       *)

Byte(m, a) == IF a \in DOMAIN m THEN m[a] ELSE 0

Poke(m, a, val) ==
  IF val = 0
  THEN [b \in (DOMAIN m) \ {a} |-> m[b]]
  ELSE [b \in (DOMAIN m) \cup {a} |-> IF b = a THEN val ELSE m[b]]

Sparse(f) == [a \in {b \in DOMAIN f : f[b] # 0} |-> f[a]]

Pixel(d, p) == IF p \in d THEN 1 ELSE 0

SetPixel(d, p, val) == IF val = 0 THEN d \ {p} ELSE d \cup {p}

(* The machine as a record, so that the handlers are operators on it. *)

Self ==
  [memory |-> memory, v |-> v, pc |-> pc, i |-> i, stack |-> stack,
   sp |-> sp, timer_delay |-> timer_delay, timer_sound |-> timer_sound,
   display |-> display, quirks |-> quirks, panicked |-> panicked]

(* A panic unwinds out of the core with the state as it was at that point. *)
Panic(s) == [s EXCEPT !.panicked = TRUE]

initialize_memory(s) ==
  [s EXCEPT !.memory = Sparse([a \in 0..(MEMORY_LEN - 1) |->
                          IF a < 80 THEN FONT_SET[a + 1] ELSE Byte(s.memory, a)])]

(* new ignoring its argument and storing the default quirks. *)
M_new_DefaultQuirks(q) ==
  initialize_memory(
    [memory |-> Sparse([a \in 0..(MEMORY_LEN - 1) |-> 0]),
     v |-> [r \in 0..(V_LEN - 1) |-> 0],
     pc |-> ROM_START,
     i |-> 0,
     stack |-> [k \in 0..(STACK_LEN - 1) |-> 0],
     sp |-> 0,
     timer_delay |-> 0,
     timer_sound |-> 0,
     display |-> {},
     quirks |-> [shift_vy |-> FALSE],
     panicked |-> FALSE])

new(q) ==
  initialize_memory(
    [memory |-> Sparse([a \in 0..(MEMORY_LEN - 1) |-> 0]),
     v |-> [r \in 0..(V_LEN - 1) |-> 0],
     pc |-> ROM_START,
     i |-> 0,
     stack |-> [k \in 0..(STACK_LEN - 1) |-> 0],
     sp |-> 0,
     timer_delay |-> 0,
     timer_sound |-> 0,
     display |-> {},
     quirks |-> q,
     panicked |-> FALSE])

(* load_rom stopping one byte short of the end of memory. *)
M_load_rom_StopsEarly(s, data) ==
  LET fits == { k \in 0..(Len(data) - 1) : k + ROM_START < MEMORY_LEN - 1 }
      dest == { k + ROM_START : k \in fits }
      kept == { a \in dest : data[a - ROM_START + 1] # 0 }
  IN  [s EXCEPT !.memory =
         [a \in ((DOMAIN s.memory) \ dest) \cup kept |->
            IF a \in dest THEN data[a - ROM_START + 1] ELSE s.memory[a]]]

(* data is the byte slice, data[1] its first byte.  `fits` are the         *)
(* iterations of the loop whose guard holds; each writes its own address,  *)
(* so the loop is the one assignment below it.                             *)
load_rom(s, data) ==
  LET fits == { k \in 0..(Len(data) - 1) : k + ROM_START < MEMORY_LEN }
      dest == { k + ROM_START : k \in fits }
      kept == { a \in dest : data[a - ROM_START + 1] # 0 }
  IN  [s EXCEPT !.memory =
         [a \in ((DOMAIN s.memory) \ dest) \cup kept |->
            IF a \in dest THEN data[a - ROM_START + 1] ELSE s.memory[a]]]

(* update_timers decrementing without the guards: 0 wraps to 255. *)
M_update_timers_Wrapping(s) ==
  [s EXCEPT !.timer_delay = (s.timer_delay - 1) % U8,
            !.timer_sound = (s.timer_sound - 1) % U8]

update_timers(s) ==
  LET s1 == IF s.timer_delay > 0
            THEN [s EXCEPT !.timer_delay = s.timer_delay - 1] ELSE s
  IN  IF s1.timer_sound > 0
      THEN [s1 EXCEPT !.timer_sound = s1.timer_sound - 1] ELSE s1

(* Reads memory[pc] and memory[pc + 1]; either index out of range panics  *)
(* before pc is advanced.                                                  *)
fetch_opcode(s) ==
  IF s.pc > MEMORY_LEN - 1 \/ s.pc + 1 > MEMORY_LEN - 1
  THEN [s |-> Panic(s), opcode |-> 0]
  ELSE [s |-> [s EXCEPT !.pc = s.pc + 2],
        opcode |-> Byte(s.memory, s.pc) * 256 + Byte(s.memory, s.pc + 1)]

----------------------------------------------------------------------------
(* The arms of execute_opcode.  s is the state after the fetch. *)

(* Variants of the arms with one plausible slip each; the properties below *)
(* are checked to tell each of them from the arm it is a variant of.       *)

(* 00EE without the depth guard in effect: at depth 0 it loads slot 0. *)
M_Op00EE_NoGuard(s) ==
  IF s.sp > 0
  THEN [s EXCEPT !.sp = s.sp - 1, !.pc = s.stack[s.sp - 1]]
  ELSE [s EXCEPT !.pc = s.stack[0]]

(* 00EE returning to the oldest saved address instead of the newest. *)
M_Op00EE_Oldest(s) ==
  IF s.sp > 0
  THEN [s EXCEPT !.sp = s.sp - 1, !.pc = s.stack[0]]
  ELSE s

Op00EE(s) ==
  IF s.sp > 0
  THEN [s EXCEPT !.sp = s.sp - 1, !.pc = s.stack[s.sp - 1]]
  ELSE s

Op00E0(s) == [s EXCEPT !.display = {}]

Op1nnn(s, nnn) == [s EXCEPT !.pc = nnn]

(* 2nnn counting the depth past the 16 slots. *)
M_Op2nnn_NoLimit(s, nnn) ==
  [s EXCEPT !.stack = IF s.sp < STACK_LEN
                      THEN [s.stack EXCEPT ![s.sp] = s.pc] ELSE s.stack,
            !.sp = s.sp + 1,
            !.pc = nnn]

(* 2nnn jumping although the stack is full. *)
M_Op2nnn_JumpWhenFull(s, nnn) ==
  IF s.sp < STACK_LEN
  THEN [s EXCEPT !.stack = [s.stack EXCEPT ![s.sp] = s.pc],
                 !.sp = s.sp + 1,
                 !.pc = nnn]
  ELSE [s EXCEPT !.pc = nnn]

(* 2nnn saving the address of the call itself. *)
M_Op2nnn_SavesCallAddress(s, nnn) ==
  IF s.sp < STACK_LEN
  THEN [s EXCEPT !.stack = [s.stack EXCEPT ![s.sp] = s.pc - 2],
                 !.sp = s.sp + 1,
                 !.pc = nnn]
  ELSE s

Op2nnn(s, nnn) ==
  IF s.sp < STACK_LEN
  THEN [s EXCEPT !.stack = [s.stack EXCEPT ![s.sp] = s.pc],
                 !.sp = s.sp + 1,
                 !.pc = nnn]
  ELSE s

(* 3xkk with the comparison inverted. *)
M_Op3xkk_Inverted(s, x, kk) == IF s.v[x] # kk THEN [s EXCEPT !.pc = s.pc + 2] ELSE s

Op3xkk(s, x, kk) == IF s.v[x] = kk THEN [s EXCEPT !.pc = s.pc + 2] ELSE s

Op4xkk(s, x, kk) == IF s.v[x] # kk THEN [s EXCEPT !.pc = s.pc + 2] ELSE s

Op5xy0(s, x, y) == IF s.v[x] = s.v[y] THEN [s EXCEPT !.pc = s.pc + 2] ELSE s

Op6xkk(s, x, kk) == [s EXCEPT !.v = [s.v EXCEPT ![x] = kk]]

(* 7xkk saturating at 255 instead of wrapping. *)
M_Op7xkk_Saturating(s, x, kk) ==
  [s EXCEPT !.v = [s.v EXCEPT ![x] = IF s.v[x] + kk > U8 - 1 THEN U8 - 1
                                     ELSE s.v[x] + kk]]

Op7xkk(s, x, kk) == [s EXCEPT !.v = [s.v EXCEPT ![x] = (s.v[x] + kk) % U8]]

Op8xy0(s, x, y) == [s EXCEPT !.v = [s.v EXCEPT ![x] = s.v[y]]]

Op8xy1(s, x, y) == [s EXCEPT !.v = [s.v EXCEPT ![x] = Or8(s.v[x], s.v[y])]]

Op8xy2(s, x, y) == [s EXCEPT !.v = [s.v EXCEPT ![x] = And8(s.v[x], s.v[y])]]

Op8xy3(s, x, y) == [s EXCEPT !.v = [s.v EXCEPT ![x] = Xor8(s.v[x], s.v[y])]]

(* 8xy4 reporting a carry only past 256. *)
M_Op8xy4_CarryOffByOne(s, x, y) ==
  LET sum      == s.v[x] + s.v[y]
      result   == sum % U8
      overflow == sum > U8
      v1       == [s.v EXCEPT ![15] = IF overflow THEN 1 ELSE 0]
      v2       == [v1 EXCEPT ![x] = result]
  IN  [s EXCEPT !.v = v2]

(* overflowing_add reads both operands first; then VF, then Vx is written. *)
Op8xy4(s, x, y) ==
  LET sum      == s.v[x] + s.v[y]
      result   == sum % U8
      overflow == sum > U8 - 1
      v1       == [s.v EXCEPT ![15] = IF overflow THEN 1 ELSE 0]
      v2       == [v1 EXCEPT ![x] = result]
  IN  [s EXCEPT !.v = v2]

(* VF is written first; the subtraction then reads v[x] and v[y] again. *)
Op8xy5(s, x, y) ==
  LET v1 == [s.v EXCEPT ![15] = IF s.v[x] > s.v[y] THEN 1 ELSE 0]
      v2 == [v1 EXCEPT ![x] = (v1[x] - v1[y]) % U8]
  IN  [s EXCEPT !.v = v2]

(* 8xy6 copying Vy into Vx whatever the quirk setting is. *)
M_Op8xy6_AlwaysVy(s, x, y) ==
  LET v0 == [s.v EXCEPT ![x] = s.v[y]]
      v1 == [v0 EXCEPT ![15] = v0[x] % 2]
      v2 == [v1 EXCEPT ![x] = v1[x] \div 2]
  IN  [s EXCEPT !.v = v2]

Op8xy6(s, x, y) ==
  LET v0 == IF s.quirks.shift_vy THEN [s.v EXCEPT ![x] = s.v[y]] ELSE s.v
      v1 == [v0 EXCEPT ![15] = v0[x] % 2]
      v2 == [v1 EXCEPT ![x] = v1[x] \div 2]
  IN  [s EXCEPT !.v = v2]

Op8xy7(s, x, y) ==
  LET v1 == [s.v EXCEPT ![15] = IF s.v[y] > s.v[x] THEN 1 ELSE 0]
      v2 == [v1 EXCEPT ![x] = (v1[y] - v1[x]) % U8]
  IN  [s EXCEPT !.v = v2]

Op8xyE(s, x, y) ==
  LET v0 == IF s.quirks.shift_vy THEN [s.v EXCEPT ![x] = s.v[y]] ELSE s.v
      v1 == [v0 EXCEPT ![15] = Bit(v0[x], 7)]
      v2 == [v1 EXCEPT ![x] = (v1[x] * 2) % U8]
  IN  [s EXCEPT !.v = v2]

Op9xy0(s, x, y) == IF s.v[x] # s.v[y] THEN [s EXCEPT !.pc = s.pc + 2] ELSE s

OpAnnn(s, nnn) == [s EXCEPT !.i = nnn]

OpBnnn(s, nnn) == [s EXCEPT !.pc = nnn + s.v[0]]

(* One outcome for every byte the random generator can return. *)
OpCxkk(s, x, kk) ==
  { [s EXCEPT !.v = [s.v EXCEPT ![x] = And8(random, kk)]] : random \in 0..(U8 - 1) }

(* The inner loop of Dxyn setting the pixels instead of toggling them. *)
RECURSIVE M_DrawBits_Or(_, _, _, _, _, _)
M_DrawBits_Or(acc, pixel, vx, vy, yline, xline) ==
  IF xline = 8 THEN acc
  ELSE IF Bit(pixel, 7 - xline) # 0
       THEN LET idx        == vx + xline + ((vy + yline) * 64)
                actual_idx == idx % DISPLAY_LEN
                toggled    == SetPixel(acc.display, actual_idx, 1)
            IN  IF Pixel(acc.display, actual_idx) = 1
                THEN M_DrawBits_Or([acc EXCEPT !.display = toggled, !.collision = 1],
                       pixel, vx, vy, yline, xline + 1)
                ELSE M_DrawBits_Or([acc EXCEPT !.display = toggled],
                       pixel, vx, vy, yline, xline + 1)
       ELSE M_DrawBits_Or(acc, pixel, vx, vy, yline, xline + 1)

(* The inner loop of Dxyn over the 8 bits of one sprite byte, most          *)
(* significant bit first; acc holds the display and the local collision.   *)
RECURSIVE DrawBits(_, _, _, _, _, _)
DrawBits(acc, pixel, vx, vy, yline, xline) ==
  IF xline = 8 THEN acc
  ELSE IF Bit(pixel, 7 - xline) # 0
       THEN LET idx        == vx + xline + ((vy + yline) * 64)
                actual_idx == idx % DISPLAY_LEN
                toggled    == SetPixel(acc.display, actual_idx, Xor8(Pixel(acc.display, actual_idx), 1))
            IN  IF Pixel(acc.display, actual_idx) = 1
                THEN DrawBits([acc EXCEPT !.display = toggled, !.collision = 1],
                       pixel, vx, vy, yline, xline + 1)
                ELSE DrawBits([acc EXCEPT !.display = toggled],
                       pixel, vx, vy, yline, xline + 1)
       ELSE DrawBits(acc, pixel, vx, vy, yline, xline + 1)

(* The outer loop after the rows 0..yline-1: memory[i + yline] out of      *)
(* range panics with the rows drawn so far left on the display and VF not  *)
(* yet written.                                                            *)
RECURSIVE DrawRows(_, _, _, _)
DrawRows(s, vx, vy, yline) ==
  IF yline = 0
  THEN [display |-> s.display, collision |-> 0, panicked |-> FALSE]
  ELSE LET acc == DrawRows(s, vx, vy, yline - 1)
       IN  IF acc.panicked THEN acc
           ELSE IF s.i + (yline - 1) > MEMORY_LEN - 1
                THEN [acc EXCEPT !.panicked = TRUE]
                ELSE DrawBits(acc, Byte(s.memory, s.i + (yline - 1)),
                              vx, vy, yline - 1, 0)

OpDxyn(s, x, y, n) ==
  LET acc == DrawRows(s, s.v[x], s.v[y], n)
  IN  IF acc.panicked
      THEN Panic([s EXCEPT !.display = acc.display])
      ELSE [s EXCEPT !.display = acc.display,
                     !.v = [s.v EXCEPT ![15] = acc.collision]]

(* keypad[v[x]] is an index into a 16-element array. *)
OpEx9E(s, x, keypad) ==
  IF s.v[x] > KEYPAD_LEN - 1 THEN Panic(s)
  ELSE IF keypad[s.v[x]] # 0 THEN [s EXCEPT !.pc = s.pc + 2] ELSE s

OpExA1(s, x, keypad) ==
  IF s.v[x] > KEYPAD_LEN - 1 THEN Panic(s)
  ELSE IF keypad[s.v[x]] = 0 THEN [s EXCEPT !.pc = s.pc + 2] ELSE s

OpFx07(s, x) == [s EXCEPT !.v = [s.v EXCEPT ![x] = s.timer_delay]]

(* The scan of Fx0A keeping the first pressed key instead of the last. *)
RECURSIVE M_ScanKeys_FirstWins(_, _, _, _)
M_ScanKeys_FirstWins(acc, x, keypad, k) ==
  IF k = KEYPAD_LEN THEN acc
  ELSE IF keypad[k] # 0 /\ ~acc.key_pressed
       THEN M_ScanKeys_FirstWins([v |-> [acc.v EXCEPT ![x] = k], key_pressed |-> TRUE],
                                 x, keypad, k + 1)
       ELSE M_ScanKeys_FirstWins(acc, x, keypad, k + 1)

(* The scan of Fx0A over the keys k..15; acc holds v and key_pressed. *)
RECURSIVE ScanKeys(_, _, _, _)
ScanKeys(acc, x, keypad, k) ==
  IF k = KEYPAD_LEN THEN acc
  ELSE IF keypad[k] # 0
       THEN ScanKeys([v |-> [acc.v EXCEPT ![x] = k], key_pressed |-> TRUE],
                     x, keypad, k + 1)
       ELSE ScanKeys(acc, x, keypad, k + 1)

(* Fx0A that does not rewind the program counter when no key is pressed. *)
M_OpFx0A_NoRewind(s, x, keypad) ==
  LET r == ScanKeys([v |-> s.v, key_pressed |-> FALSE], x, keypad, 0)
  IN  [s EXCEPT !.v = r.v]

(* Fx0A that rewinds the program counter whether or not a key is pressed. *)
M_OpFx0A_AlwaysRewinds(s, x, keypad) ==
  LET r == ScanKeys([v |-> s.v, key_pressed |-> FALSE], x, keypad, 0)
  IN  [s EXCEPT !.v = r.v, !.pc = s.pc - 2]

OpFx0A(s, x, keypad) ==
  LET r == ScanKeys([v |-> s.v, key_pressed |-> FALSE], x, keypad, 0)
  IN  IF r.key_pressed
      THEN [s EXCEPT !.v = r.v]
      ELSE [s EXCEPT !.v = r.v, !.pc = s.pc - 2]

OpFx15(s, x) == [s EXCEPT !.timer_delay = s.v[x]]

OpFx18(s, x) == [s EXCEPT !.timer_sound = s.v[x]]

(* u16 addition: past 65535 a build with overflow checks panics, a build  *)
(* without them wraps.                                                     *)
OpFx1E(s, x) ==
  IF s.i + s.v[x] > U16 - 1
  THEN { Panic(s), [s EXCEPT !.i = (s.i + s.v[x]) % U16] }
  ELSE { [s EXCEPT !.i = s.i + s.v[x]] }

OpFx29(s, x) == [s EXCEPT !.i = s.v[x] * 5]

(* memory[addr] = val, or a panic when addr is out of range. *)
Store(s, addr, val) ==
  IF s.panicked THEN s
  ELSE IF addr > MEMORY_LEN - 1 THEN Panic(s)
       ELSE [s EXCEPT !.memory = Poke(s.memory, addr, val)]

(* Fx33 storing num / 10 as the tens without reducing it below 10. *)
M_OpFx33_TensUnreduced(s, x) ==
  LET num == s.v[x]
      s1  == Store(s, s.i, num \div 100)
      s2  == Store(s1, s.i + 1, num \div 10)
  IN  Store(s2, s.i + 2, num % 10)

OpFx33(s, x) ==
  LET num == s.v[x]
      s1  == Store(s, s.i, num \div 100)
      s2  == Store(s1, s.i + 1, (num % 100) \div 10)
  IN  Store(s2, s.i + 2, num % 10)

(* The loop of Fx55 over 0..x-1 instead of 0..=x. *)
RECURSIVE M_StoreRegs_Exclusive(_, _, _)
M_StoreRegs_Exclusive(s, x, k) ==
  IF k > x - 1 \/ s.panicked THEN s
  ELSE M_StoreRegs_Exclusive(Store(s, s.i + k, s.v[k]), x, k + 1)

RECURSIVE StoreRegs(_, _, _)
StoreRegs(s, x, k) ==
  IF k > x \/ s.panicked THEN s
  ELSE StoreRegs(Store(s, s.i + k, s.v[k]), x, k + 1)

OpFx55(s, x) == StoreRegs(s, x, 0)

RECURSIVE LoadRegs(_, _, _)
LoadRegs(s, x, k) ==
  IF k > x THEN s
  ELSE IF s.i + k > MEMORY_LEN - 1 THEN Panic(s)
       ELSE LoadRegs([s EXCEPT !.v = [s.v EXCEPT ![k] = Byte(s.memory, s.i + k)]],
                     x, k + 1)

OpFx65(s, x) == LoadRegs(s, x, 0)

(* println!("Unknown opcode"): nothing in the machine changes. *)
Unknown(s) == s

----------------------------------------------------------------------------
(* execute_opcode: the set of states it can leave. *)

execute_opcode(s, opcode, keypad) ==
  LET first_nibble  == (opcode \div 4096) % 16
      second_nibble == (opcode \div 256) % 16
      third_nibble  == (opcode \div 16) % 16
      fourth_nibble == opcode % 16
      nnn == opcode % 4096
      kk  == opcode % 256
      x   == second_nibble
      y   == third_nibble
  IN  CASE first_nibble = 0 ->
             IF second_nibble = 0
             THEN IF fourth_nibble = 14 THEN {Op00EE(s)} ELSE {Op00E0(s)}
             ELSE {s}
        [] first_nibble = 1 -> {Op1nnn(s, nnn)}
        [] first_nibble = 2 -> {Op2nnn(s, nnn)}
        [] first_nibble = 3 -> {Op3xkk(s, x, kk)}
        [] first_nibble = 4 -> {Op4xkk(s, x, kk)}
        [] first_nibble = 5 -> {Op5xy0(s, x, y)}
        [] first_nibble = 6 -> {Op6xkk(s, x, kk)}
        [] first_nibble = 7 -> {Op7xkk(s, x, kk)}
        [] first_nibble = 8 ->
             CASE fourth_nibble = 0 -> {Op8xy0(s, x, y)}
               [] fourth_nibble = 1 -> {Op8xy1(s, x, y)}
               [] fourth_nibble = 2 -> {Op8xy2(s, x, y)}
               [] fourth_nibble = 3 -> {Op8xy3(s, x, y)}
               [] fourth_nibble = 4 -> {Op8xy4(s, x, y)}
               [] fourth_nibble = 5 -> {Op8xy5(s, x, y)}
               [] fourth_nibble = 6 -> {Op8xy6(s, x, y)}
               [] fourth_nibble = 7 -> {Op8xy7(s, x, y)}
               [] fourth_nibble = 14 -> {Op8xyE(s, x, y)}
               [] OTHER -> {Unknown(s)}
        [] first_nibble = 9 -> {Op9xy0(s, x, y)}
        [] first_nibble = 10 -> {OpAnnn(s, nnn)}
        [] first_nibble = 11 -> {OpBnnn(s, nnn)}
        [] first_nibble = 12 -> OpCxkk(s, x, kk)
        [] first_nibble = 13 -> {OpDxyn(s, x, y, fourth_nibble)}
        [] first_nibble = 14 ->
             CASE kk = 158 -> {OpEx9E(s, x, keypad)}
               [] kk = 161 -> {OpExA1(s, x, keypad)}
               [] OTHER -> {Unknown(s)}
        [] first_nibble = 15 ->
             CASE kk = 7 -> {OpFx07(s, x)}
               [] kk = 10 -> {OpFx0A(s, x, keypad)}
               [] kk = 21 -> {OpFx15(s, x)}
               [] kk = 24 -> {OpFx18(s, x)}
               [] kk = 30 -> OpFx1E(s, x)
               [] kk = 41 -> {OpFx29(s, x)}
               [] kk = 51 -> {OpFx33(s, x)}
               [] kk = 85 -> {OpFx55(s, x)}
               [] kk = 101 -> {OpFx65(s, x)}
               [] OTHER -> {Unknown(s)}

(* tick also counting the timers down, once per cycle. *)
M_tick_CountsTimers(s, keypad) ==
  LET f == fetch_opcode(s)
  IN  IF f.s.panicked THEN {f.s}
      ELSE { update_timers(t) : t \in execute_opcode(f.s, f.opcode, keypad) }

tick(s, keypad) ==
  LET f == fetch_opcode(s)
  IN  IF f.s.panicked THEN {f.s} ELSE execute_opcode(f.s, f.opcode, keypad)

----------------------------------------------------------------------------
(* The inputs the host supplies: quirk settings, program images and key    *)
(* snapshots.                                                              *)

MaxRomLen == 3

QuirkSet == { [shift_vy |-> FALSE], [shift_vy |-> TRUE] }

KeySets == { {}, {1}, {2, 15} }

Keypads == { [k \in 0..(KEYPAD_LEN - 1) |-> IF k \in S THEN 1 ELSE 0] : S \in KeySets }

Regs == {0, 1, 15}

Bytes == {0, 1, 127, 128, 255}

(* The byte image of a sequence of 16-bit instruction words (big-endian). *)
Image(words) ==
  [k \in 1..(2 * Len(words)) |->
     IF k % 2 = 1 THEN words[(k + 1) \div 2] \div 256 ELSE words[k \div 2] % 256]

(* A program followed by two jump-to-self instructions, so that it idles   *)
(* instead of running on into the zero bytes after it.                     *)
Halting(words) ==
  words \o << 4096 + ROM_START + 2 * Len(words),
              4096 + ROM_START + 2 * Len(words) + 2 >>

(* 00EE, 2200, 2202, 2204, 1FFE *)
CtlOps == {238, 8704, 8706, 8708, 8190}

(* Programs of up to MaxRomLen control-flow instructions with at most one *)
(* call site (several call sites that re-enter each other unwind through   *)
(* a number of states exponential in the stack depth).                     *)
OneCallSite(w) ==
  \A j, k \in DOMAIN w : (w[j] \div 4096 = 2 /\ w[k] \div 4096 = 2) => j = k

CtlRoms ==
  { Image(Halting(w)) :
      w \in { u \in UNION { [1..n -> CtlOps] : n \in 0..MaxRomLen } : OneCallSite(u) } }

(* 2204 00EE 2202 00EE: two nested calls, then two returns. *)
Nested2 == << 8708, 238, 8706, 238 >>

(* 2204 00EE 2208 00EE 2202 00EE: three nested calls, then three returns. *)
Nested3 == << 8708, 238, 8712, 238, 8706, 238 >>

AluOps(x, y) ==
  { 32768 + x * 256 + y * 16 + 4,
    32768 + x * 256 + y * 16 + 5,
    32768 + x * 256 + y * 16 + 7 }
  \cup { 28672 + x * 256 + kk : kk \in Bytes }
  \cup { 12288 + x * 256 + kk : kk \in Bytes }

(* 6xaa 6ybb followed by one instruction on Vx and Vy. *)
AluRoms ==
  { Image(Halting(<< 24576 + x * 256 + a, 24576 + y * 256 + b, op >>)) :
      <<x, y, a, b, op>> \in
        { q \in Regs \X Regs \X Bytes \X Bytes \X (UNION { AluOps(x, y) : <<x, y>> \in Regs \X Regs }) :
            q[5] \in AluOps(q[1], q[2]) } }

(* 6xaa 6ybb followed by the shift 8xy6. *)
ShiftRoms ==
  { Image(Halting(<< 24576 + q[1] * 256 + q[3], 24576 + q[2] * 256 + q[4],
                     32768 + q[1] * 256 + q[2] * 16 + 6 >>)) :
      q \in Regs \X Regs \X Bytes \X Bytes }

TimerBytes == {0, 1, 3}

(* 60aa F015 60bb F018 F107: set both timers, then read the delay timer. *)
TimerRoms ==
  { Image(Halting(<< 24576 + q[1], 61461, 24576 + q[2], 61464, 61703 >>)) :
      q \in TimerBytes \X TimerBytes }

Coords == {0, 61, 255}

Heights == {0, 1, 5, 15}

(* 0x000 (glyph 0), 0x04B (glyph F and the zero bytes after the font) and  *)
(* 0xFFE (the last two bytes of memory).                                   *)
SpriteAddrs == {0, 75, 4094}

(* Annn 6xaa 6ybb Dxyn Dxyn: the same sprite drawn twice. *)
DrawRoms ==
  { Image(Halting(<< 40960 + q[1],
                     24576 + q[2] * 256 + q[4], 24576 + q[3] * 256 + q[5],
                     53248 + q[2] * 256 + q[3] * 16 + q[6],
                     53248 + q[2] * 256 + q[3] * 16 + q[6] >>)) :
      q \in SpriteAddrs \X Regs \X Regs \X Coords \X Coords \X Heights }

(* 00E0 and words outside the patterns named in execute_opcode: 0000, 00FE, *)
(* 0123, 5001, 9011, 8018, E000, F0FF.                                     *)
DecodeWords == {224, 0, 254, 291, 20481, 36881, 32792, 57344, 61695}

(* 2202 6101 D005 and one of the words above: a call, V1 = 1, glyph 0 drawn *)
(* at (0, 0).                                                              *)
DecodeRoms == { Image(Halting(<< 8706, 24833, 53253, w >>)) : w \in DecodeWords }

(* Fx0A alone, and 6003 F015 F018 Fx0A: both timers running while waiting. *)
WaitRoms ==
  UNION { { Image(Halting(<< 61450 + x * 256 >>)),
            Image(Halting(<< 24579, 61461, 61464, 61450 + x * 256 >>)) } : x \in Regs }

(* An image two bytes longer than the 3584 bytes from 0x200 to 0xFFF: 1200 *)
(* (a jump to itself), zeros, and 0xFF in its last three bytes, of which   *)
(* only the first fits.                                                    *)
Oversized ==
  [k \in 1..(MEMORY_LEN - ROM_START + 2) |->
     IF k = 1 THEN 18 ELSE IF k >= MEMORY_LEN - ROM_START THEN 255 ELSE 0]

BcdBytes == {0, 7, 109, 255}

(* 0x300, and 0xFFD and 0xFFE: the last addresses with two and with one    *)
(* byte of memory after them.                                              *)
StoreAddrs == {768, 4093, 4094}

(* Annn 6xkk Fx33 *)
BcdRoms ==
  { Image(Halting(<< 40960 + q[1], 24576 + q[2] * 256 + q[3], 61491 + q[2] * 256 >>)) :
      q \in StoreAddrs \X Regs \X BcdBytes }

(* 0x300, 0xFF0 (register 15 lands on the last byte of memory) and 0xFFE   *)
(* (only two registers fit).                                               *)
RegAddrs == {768, 4080, 4094}

(* 60aa 61FF 6F80 Annn Fx55 6011 6122 6F33 Fx65: three registers set,      *)
(* registers 0..x stored, the three overwritten, registers 0..x loaded.    *)
RegRoms ==
  { Image(Halting(<< 24576 + q[1], 24832 + 255, 28416 + 128, 40960 + q[2],
                     61525 + q[3] * 256, 24576 + 17, 24832 + 34, 28416 + 51,
                     61541 + q[3] * 256 >>)) :
      q \in {0, 7} \X RegAddrs \X Regs }

KeyValues == {1, 2, 15, 16, 255}

(* 6xkk Ex9E and 6xkk ExA1 *)
KeyRoms ==
  { Image(Halting(<< 24576 + q[1] * 256 + q[2], 57344 + q[1] * 256 + q[3] >>)) :
      q \in Regs \X KeyValues \X {158, 161} }

Roms ==
  CtlRoms \cup AluRoms \cup ShiftRoms \cup TimerRoms \cup DrawRoms
    \cup DecodeRoms \cup WaitRoms \cup BcdRoms \cup RegRoms
    \cup KeyRoms
  \cup { << >>, Image(Halting(Nested2)), Image(Halting(Nested3)), Oversized }

----------------------------------------------------------------------------
(* The state machine. *)

Becomes(s) ==
  /\ memory' = s.memory
  /\ v' = s.v
  /\ pc' = s.pc
  /\ i' = s.i
  /\ stack' = s.stack
  /\ sp' = s.sp
  /\ timer_delay' = s.timer_delay
  /\ timer_sound' = s.timer_sound
  /\ display' = s.display
  /\ quirks' = s.quirks
  /\ panicked' = s.panicked

(* The instruction word the next tick fetches (when the fetch is in range). *)
FetchOk == pc + 1 <= MEMORY_LEN - 1

Fetched == Byte(memory, pc) * 256 + Byte(memory, pc + 1)

(* What the previous tick executed: the instruction word it fetched (-1    *)
(* when no tick has run or its fetch panicked), the address it fetched it  *)
(* from and the stack depth it started with.                               *)
NoPrev == [op |-> -1, pc |-> 0, sp |-> 0]

TrackPrev ==
  prev' = IF FetchOk THEN [op |-> Fetched, pc |-> pc, sp |-> sp] ELSE NoPrev

(* A reference stack of the return addresses of the calls executed since   *)
(* the last instruction that was neither 2nnn nor 00EE: ret_addrs holds    *)
(* the addresses still to return to, base_sp the depth before the first of *)
(* those calls and returns the number of 00EE executed in a row.           *)
TrackCalls ==
  IF ~FetchOk
  THEN ret_addrs' = << >> /\ base_sp' = 0 /\ returns' = 0
  ELSE IF Fetched \div 4096 = 2
  THEN LET depth == IF ret_addrs = << >> THEN sp ELSE base_sp + Len(ret_addrs)
       IN  IF depth >= STACK_LEN
           THEN ret_addrs' = ret_addrs /\ base_sp' = base_sp /\ returns' = 0
           ELSE /\ ret_addrs' = Append(ret_addrs, pc + 2)
                /\ base_sp' = (IF ret_addrs = << >> THEN sp ELSE base_sp)
                /\ returns' = 0
  ELSE IF Fetched = 238 /\ ret_addrs # << >>
  THEN /\ ret_addrs' = SubSeq(ret_addrs, 1, Len(ret_addrs) - 1)
       /\ base_sp' = base_sp
       /\ returns' = returns + 1
  ELSE ret_addrs' = << >> /\ base_sp' = 0 /\ returns' = 0

(* The history of each timer: `written` is the value the last Fx15 (delay) *)
(* or Fx18 (sound) wrote to it, 0 after new(), and `elapsed` the number of *)
(* update_timers calls since then, counted up to the written value (more   *)
(* calls than that leave max(written - calls, 0) at 0).  arg_quirks is the *)
(* argument new() was called with, arg_data the argument of load_rom()     *)
(* (empty before it is called).                                            *)
TrackTimerWrites ==
  LET fx15 == FetchOk /\ Fetched \div 4096 = 15 /\ Fetched % 256 = 21
      fx18 == FetchOk /\ Fetched \div 4096 = 15 /\ Fetched % 256 = 24
      x    == (Fetched \div 256) % 16
  IN  /\ written' = [delay |-> IF fx15 THEN v[x] ELSE written.delay,
                     sound |-> IF fx18 THEN v[x] ELSE written.sound]
      /\ elapsed' = [delay |-> IF fx15 THEN 0 ELSE elapsed.delay,
                     sound |-> IF fx18 THEN 0 ELSE elapsed.sound]

CountTimerCalls ==
  /\ written' = written
  /\ elapsed' = [delay |-> IF elapsed.delay < written.delay
                           THEN elapsed.delay + 1 ELSE elapsed.delay,
                 sound |-> IF elapsed.sound < written.sound
                           THEN elapsed.sound + 1 ELSE elapsed.sound]

(* --tcps: the target cycles per second the host is started with. *)
InitialTarget == 200

NoKeys == [k \in 0..(KEYPAD_LEN - 1) |-> 0]

(* The host before its first loop iteration.  since_decrement counts the   *)
(* instruction cycles executed since the last timer decrement and observed *)
(* is that count, with the rate then in force, at the last decrement;      *)
(* snapshot is the key snapshot of the last cycle, tapped tells that a key *)
(* went down and up again since then, overlooked that one had done so      *)
(* before the last snapshot was taken.                                     *)
HostStart ==
  /\ target_cycles_per_second = InitialTarget
  /\ sleep_duration = 1000 \div InitialTarget
  /\ host_at = "input"
  /\ since_decrement = 0
  /\ observed = [rate |-> 0, cycles |-> 0]
  /\ snapshot = NoKeys
  /\ tapped = FALSE
  /\ overlooked = FALSE

Init ==
  \E q \in QuirkSet :
    LET s == new(q)
    IN  /\ HostStart
        /\ memory = s.memory
        /\ v = s.v
        /\ pc = s.pc
        /\ i = s.i
        /\ stack = s.stack
        /\ sp = s.sp
        /\ timer_delay = s.timer_delay
        /\ timer_sound = s.timer_sound
        /\ display = s.display
        /\ quirks = s.quirks
        /\ panicked = s.panicked
        /\ last_call = "new"
        /\ prev = NoPrev
        /\ ret_addrs = << >>
        /\ base_sp = 0
        /\ returns = 0
        /\ written = [delay |-> 0, sound |-> 0]
        /\ elapsed = [delay |-> 0, sound |-> 0]
        /\ arg_quirks = q
        /\ arg_data = << >>

LoadRom(data) ==
  /\ last_call = "new"
  /\ Becomes(load_rom(Self, data))
  /\ last_call' = "load_rom"
  /\ arg_data' = data
  /\ UNCHANGED <<prev, ret_addrs, base_sp, returns, written, elapsed, arg_quirks>>
  /\ UNCHANGED host_vars

(* One call of tick(keypad) and what it does to the machine. *)
Cycle(keypad) ==
  /\ last_call # "new"
  /\ ~panicked
  /\ \E t \in tick(Self, keypad) : Becomes(t)
  /\ last_call' = "tick"
  /\ TrackPrev
  /\ TrackCalls
  /\ TrackTimerWrites
  /\ UNCHANGED <<arg_quirks, arg_data>>

Tick(keypad) == Cycle(keypad) /\ UNCHANGED host_vars

UpdateTimers ==
  /\ last_call # "new"
  /\ ~panicked
  /\ Becomes(update_timers(Self))
  /\ last_call' = "update_timers"
  /\ CountTimerCalls
  /\ UNCHANGED <<prev, ret_addrs, base_sp, returns, arg_quirks, arg_data>>
  /\ UNCHANGED host_vars

Next ==
  \/ \E data \in Roms : LoadRom(data)
  \/ \E keypad \in Keypads : Tick(keypad)
  \/ UpdateTimers

Spec == Init /\ [][Next]_vars

----------------------------------------------------------------------------
(* The host program (src/src/main.rs): it loads the program image and then *)
(* loops; one iteration reads the rate keys, executes one instruction      *)
(* cycle with a fresh key snapshot, renders, decrements the timers and     *)
(* sleeps for sleep_duration.                                              *)

(* The copy loop of the host indexes memory without a guard. *)
load_rom_from_file(s, buffer) ==
  IF Len(buffer) > MEMORY_LEN - ROM_START
  THEN Panic(load_rom(s, buffer))
  ELSE load_rom(s, buffer)

HostRoms == WaitRoms \cup {Oversized}

(* The largest rate the slash key is followed to. *)
MaxTarget == 300

UiKeys == {"none", "comma", "period", "slash"}

HostLoadRom(buffer) ==
  /\ last_call = "new"
  /\ Becomes(load_rom_from_file(Self, buffer))
  /\ last_call' = "load_rom"
  /\ arg_data' = buffer
  /\ UNCHANGED <<prev, ret_addrs, base_sp, returns, written, elapsed, arg_quirks>>
  /\ UNCHANGED host_vars

(* target_cycles_per_second is a u32 that starts at 100 or more. *)
HostInput(ui) ==
  /\ host_at = "input" /\ last_call # "new" /\ ~panicked
  /\ ui = "slash" => target_cycles_per_second + 100 <= MaxTarget
  /\ target_cycles_per_second' =
       CASE ui = "comma"  -> IF target_cycles_per_second - 100 < 100
                             THEN 100 ELSE target_cycles_per_second - 100
         [] ui = "period" -> InitialTarget
         [] ui = "slash"  -> target_cycles_per_second + 100
         [] OTHER         -> target_cycles_per_second
  /\ sleep_duration' =
       IF ui = "none" THEN sleep_duration ELSE 1000 \div target_cycles_per_second'
  /\ host_at' = "cycle"
  /\ UNCHANGED <<memory, v, pc, i, stack, sp, timer_delay, timer_sound, display,
                 quirks, panicked, last_call, prev, ret_addrs, base_sp, returns,
                 written, elapsed, arg_quirks, arg_data,
                 since_decrement, observed, snapshot, tapped, overlooked>>

(* A key goes down and up again while the loop is not reading the keys. *)
KeyTap ==
  /\ last_call # "new" /\ ~panicked
  /\ tapped' = TRUE
  /\ UNCHANGED <<memory, v, pc, i, stack, sp, timer_delay, timer_sound, display,
                 quirks, panicked, last_call, prev, ret_addrs, base_sp, returns,
                 written, elapsed, arg_quirks, arg_data,
                 target_cycles_per_second, sleep_duration, host_at,
                 since_decrement, observed, snapshot, overlooked>>

(* "emulate cycle": the key snapshot is taken and one instruction runs.    *)
(* overlooked is set when the cycle is an Fx0A that goes on waiting after  *)
(* a key was tapped since the snapshot before.                             *)
HostCycle(keypad) ==
  /\ host_at = "cycle"
  /\ Cycle(keypad)
  /\ snapshot' = keypad
  /\ tapped' = FALSE
  /\ overlooked' = (\/ overlooked
                    \/ /\ tapped /\ FetchOk /\ Fetched \div 4096 = 15
                       /\ Fetched % 256 = 10 /\ keypad = NoKeys)
  /\ since_decrement' = since_decrement + 1
  /\ host_at' = "timers"
  /\ UNCHANGED <<target_cycles_per_second, sleep_duration, observed>>

(* The end of the iteration: both timers count down, then the sleep. *)
host_timers(s) ==
  LET s1 == IF s.timer_delay > 0
            THEN [s EXCEPT !.timer_delay = s.timer_delay - 1] ELSE s
  IN  IF s1.timer_sound > 0
      THEN [s1 EXCEPT !.timer_sound = s1.timer_sound - 1] ELSE s1

HostTimers ==
  /\ host_at = "timers" /\ ~panicked
  /\ Becomes(host_timers(Self))
  /\ last_call' = "update_timers"
  /\ CountTimerCalls
  /\ observed' = [rate |-> target_cycles_per_second, cycles |-> since_decrement]
  /\ since_decrement' = 0
  /\ host_at' = "input"
  /\ UNCHANGED <<prev, ret_addrs, base_sp, returns, arg_quirks, arg_data,
                 target_cycles_per_second, sleep_duration, snapshot, tapped,
                 overlooked>>

HostNext ==
  \/ \E buffer \in HostRoms : HostLoadRom(buffer)
  \/ \E ui \in UiKeys : HostInput(ui)
  \/ KeyTap
  \/ \E keypad \in Keypads : HostCycle(keypad)
  \/ HostTimers

HostSpec == Init /\ [][HostNext]_vars

(* The loop runs for as long as the window is open. *)
HostStep ==
  \/ \E ui \in UiKeys : HostInput(ui)
  \/ \E keypad \in Keypads : HostCycle(keypad)
  \/ HostTimers

(* A cycle whose snapshot has a key pressed. *)
KeyedCycle == \E keypad \in Keypads \ {NoKeys} : HostCycle(keypad)

(* The host keeps looping and the user eventually holds a key down while   *)
(* a snapshot is taken.                                                    *)
HostLive == HostSpec /\ WF_vars(HostStep) /\ SF_vars(KeyedCycle)

----------------------------------------------------------------------------
(* Steps and frame conditions used by the properties. *)

(* The step is a call of tick whose fetch is in range. *)
TickStep == last_call' = "tick" /\ FetchOk

(* The step executes the instruction word op. *)
Executes(op) == TickStep /\ Fetched = op

(* The step executes an instruction whose first nibble is n. *)
ExecutesGroup(n) == TickStep /\ Fetched \div 4096 = n

X == (Fetched \div 256) % 16

Y == (Fetched \div 16) % 16

NNN == Fetched % 4096

KK == Fetched % 256

(* The same fields of the instruction word the previous tick executed. *)
PrevX == (prev.op \div 256) % 16

PrevY == (prev.op \div 16) % 16

PrevNNN == prev.op % 4096

PrevKK == prev.op % 256

(* Nothing of the machine but the program counter changes. *)
OnlyPcChanges ==
  /\ memory' = memory /\ v' = v /\ i' = i /\ stack' = stack /\ sp' = sp
  /\ timer_delay' = timer_delay /\ timer_sound' = timer_sound
  /\ display' = display /\ quirks' = quirks /\ panicked' = panicked

(* Nothing of the machine but the program counter, the stack and its depth *)
(* changes.                                                                *)
OnlyControlChanges ==
  /\ memory' = memory /\ v' = v /\ i' = i
  /\ timer_delay' = timer_delay /\ timer_sound' = timer_sound
  /\ display' = display /\ quirks' = quirks /\ panicked' = panicked

(* Nothing of the machine but the registers and the program counter        *)
(* changes.                                                                *)
OnlyRegsAndPcChange ==
  /\ memory' = memory /\ i' = i /\ stack' = stack /\ sp' = sp
  /\ timer_delay' = timer_delay /\ timer_sound' = timer_sound
  /\ display' = display /\ quirks' = quirks /\ panicked' = panicked

----------------------------------------------------------------------------
(* C1: every tick completes: no fetch, memory access through the index     *)
(* register, key lookup, stack or display access is out of range and no    *)
(* arithmetic faults, so the core never panics.                            *)
C1_NeverPanics == panicked = FALSE

(* C2: in every reachable state the call-stack depth sp is between 0 and   *)
(* 16 inclusive.                                                           *)
C2_DepthInRange == sp \in 0..STACK_LEN

C2_Witness == sp = STACK_LEN /\ last_call = "tick"

(* C3: at depth 16 a further 2nnn leaves the stack and the depth           *)
(* unchanged and does not jump: the program counter is the address after   *)
(* the 2nnn and nothing else changes.                                      *)
C3_OverflowCallDropped ==
  [][(ExecutesGroup(2) /\ sp = STACK_LEN) =>
       (stack' = stack /\ sp' = sp /\ pc' = pc + 2 /\ OnlyControlChanges)]_vars

C3_Witness ==
  /\ last_call = "tick" /\ prev.op \div 4096 = 2 /\ prev.sp = STACK_LEN
  /\ sp = STACK_LEN /\ pc = prev.pc + 2 /\ pc # PrevNNN

(* C4: at depth 0 a 00EE is a no-op: the depth stays 0, the stack is       *)
(* unchanged, the program counter advances by the fetch advance of 2 only  *)
(* and nothing else changes.                                               *)
C4_UnderflowReturnDropped ==
  [][(Executes(238) /\ sp = 0) =>
       (sp' = 0 /\ stack' = stack /\ pc' = pc + 2 /\ OnlyControlChanges)]_vars

C4_Witness ==
  /\ last_call = "tick" /\ prev.op = 238 /\ prev.sp = 0
  /\ sp = 0 /\ pc = prev.pc + 2

(* C5: with depth < 16, a 2nnn sets the program counter to nnn, raises the *)
(* depth by one and saves the address after the 2nnn in the new top slot;  *)
(* a 00EE executed right after it restores that address and the depth      *)
(* held before the call.                                                   *)
C5_CallThenReturn ==
  [][/\ (ExecutesGroup(2) /\ sp < STACK_LEN) =>
          (pc' = NNN /\ sp' = sp + 1 /\ stack'[sp] = pc + 2)
     /\ (Executes(238) /\ prev.op \div 4096 = 2 /\ prev.sp < STACK_LEN) =>
          (pc' = prev.pc + 2 /\ sp' = prev.sp)]_vars

C5_Witness ==
  /\ last_call = "tick" /\ prev.op = 238 /\ returns = 1
  /\ sp = base_sp /\ pc = stack[sp] /\ pc # prev.pc + 2

(* C6: the call stack is last-in-first-out: after k nested calls the       *)
(* following 00EE instructions set the program counter to the saved        *)
(* return addresses in the reverse order of the calls, the depth falling   *)
(* by one at each return and ending at the depth before the first call.    *)
C6_ReturnsInReverseOrder ==
  [][(Executes(238) /\ ret_addrs # << >>) =>
       (/\ pc' = ret_addrs[Len(ret_addrs)]
        /\ sp' = base_sp + Len(ret_addrs) - 1)]_vars

C6_Witness ==
  /\ last_call = "tick" /\ returns = 3 /\ ret_addrs = << >> /\ sp = base_sp
  /\ pc = stack[sp] /\ stack[sp] # stack[sp + 1] /\ stack[sp + 1] # stack[sp + 2]

(* C7 as stated: for all x and y, after 8xy4 register 0xF is 1 iff the     *)
(* sum of the old operands exceeds 255, 0 otherwise, and register x is     *)
(* that sum mod 256.                                                       *)
C7_FlagAndSumForAllX ==
  [][(ExecutesGroup(8) /\ Fetched % 16 = 4) =>
       (/\ v'[15] = (IF v[X] + v[Y] > 255 THEN 1 ELSE 0)
        /\ v'[X] = (v[X] + v[Y]) % U8)]_vars

(* C7 amended: after 8xy4 register x is the sum of the old operands mod    *)
(* 256 for all x and y; register 0xF is the carry (1 iff the sum exceeds   *)
(* 255) when x is not 0xF, and when x is 0xF it holds the sum mod 256,     *)
(* the result being written after the flag.                                *)
C7_SumAndCarry ==
  [][(ExecutesGroup(8) /\ Fetched % 16 = 4) =>
       (/\ v'[X] = (v[X] + v[Y]) % U8
        /\ (X # 15 => v'[15] = (IF v[X] + v[Y] > 255 THEN 1 ELSE 0))
        /\ \A r \in 0..(V_LEN - 1) : (r # X /\ r # 15) => v'[r] = v[r]
        /\ pc' = pc + 2 /\ OnlyRegsAndPcChange)]_vars

C7_Witness ==
  /\ last_call = "tick" /\ prev.op \div 4096 = 8 /\ prev.op % 16 = 4
  /\ PrevX # 15
  /\ v[15] = 1 /\ v[PrevX] = 0 /\ pc = prev.pc + 2

(* C8: the subtract instructions compute from the operand values held      *)
(* before the instruction: after 8xy5 register x is (old Vx - old Vy) mod  *)
(* 256 and register 0xF is 1 iff old Vx > old Vy; after 8xy7 register x is *)
(* (old Vy - old Vx) mod 256 and register 0xF is 1 iff old Vy > old Vx;    *)
(* the flag write does not alter the operands.  (For x = 0xF, where the    *)
(* result and the flag name one register, the flag is the one required.)   *)
C8_SubtractFromOldOperands ==
  [][/\ (ExecutesGroup(8) /\ Fetched % 16 = 5) =>
          (/\ (X # 15 => v'[X] = (v[X] - v[Y]) % U8)
           /\ v'[15] = (IF v[X] > v[Y] THEN 1 ELSE 0))
     /\ (ExecutesGroup(8) /\ Fetched % 16 = 7) =>
          (/\ (X # 15 => v'[X] = (v[Y] - v[X]) % U8)
           /\ v'[15] = (IF v[Y] > v[X] THEN 1 ELSE 0))]_vars

(* C9: 6xkk sets register x to kk and 7xkk adds kk to it modulo 256,       *)
(* neither faults, sets a flag or changes another register, each cycle     *)
(* advances the program counter by 2, and after 6xkk then 7xkk' register x *)
(* is (kk + kk') mod 256.                                                  *)
C9_SetThenAdd ==
  [][/\ ExecutesGroup(6) =>
          (v' = [v EXCEPT ![X] = KK] /\ pc' = pc + 2 /\ OnlyRegsAndPcChange)
     /\ ExecutesGroup(7) =>
          (/\ v' = [v EXCEPT ![X] = (v[X] + KK) % U8]
           /\ pc' = pc + 2 /\ OnlyRegsAndPcChange)
     /\ (ExecutesGroup(7) /\ prev.op \div 4096 = 6 /\ PrevX = X) =>
          v'[X] = (PrevKK + KK) % U8]_vars

C9_Witness ==
  /\ last_call = "tick" /\ prev.op \div 4096 = 7 /\ pc = prev.pc + 2
  /\ Byte(memory, prev.pc - 2) = 96 + PrevX
  /\ Byte(memory, prev.pc - 1) + PrevKK > 255
  /\ v[PrevX] = (Byte(memory, prev.pc - 1) + PrevKK) % U8

(* C10: one cycle executing 3xkk advances the program counter by 4 from    *)
(* its pre-fetch value when register x equals kk and by 2 when it does     *)
(* not, and changes nothing else.                                          *)
C10_SkipIfEqual ==
  [][ExecutesGroup(3) =>
       (/\ pc' = pc + (IF v[X] = KK THEN 4 ELSE 2)
        /\ OnlyPcChanges)]_vars

C10_Witness ==
  /\ last_call = "tick" /\ prev.op \div 4096 = 3 /\ pc = prev.pc + 4
  /\ v[PrevX] = PrevKK

(* C11 as stated: for all x and y, with shift_vy disabled 8xy6 leaves      *)
(* register y unchanged, sets register x to old Vx >> 1 and register 0xF   *)
(* to bit 0 of old Vx; with shift_vy enabled it sets register x to         *)
(* old Vy >> 1 and register 0xF to bit 0 of old Vy.                        *)
C11_ShiftForAllXY ==
  [][(ExecutesGroup(8) /\ Fetched % 16 = 6) =>
       IF quirks.shift_vy
       THEN v'[X] = v[Y] \div 2 /\ v'[15] = v[Y] % 2
       ELSE v'[Y] = v[Y] /\ v'[X] = v[X] \div 2 /\ v'[15] = v[X] % 2]_vars

(* C11 amended: for x other than 0xF, with shift_vy disabled 8xy6 sets     *)
(* register x to old Vx >> 1 and register 0xF to bit 0 of old Vx, and with *)
(* shift_vy enabled register x to old Vy >> 1 and register 0xF to bit 0 of *)
(* old Vy; register y is unchanged when y is neither x nor 0xF; for x =    *)
(* 0xF register 0xF ends at 0, the flag bit being shifted out; no other    *)
(* register and nothing else but the program counter changes.              *)
C11_ShiftRight ==
  [][(ExecutesGroup(8) /\ Fetched % 16 = 6) =>
       LET src == IF quirks.shift_vy THEN v[Y] ELSE v[X]
       IN  /\ X # 15 => (v'[X] = src \div 2 /\ v'[15] = src % 2)
           /\ X = 15 => v'[15] = 0
           /\ \A r \in 0..(V_LEN - 1) : (r # X /\ r # 15) => v'[r] = v[r]
           /\ pc' = pc + 2 /\ OnlyRegsAndPcChange]_vars

C11_Witness ==
  /\ last_call = "tick" /\ prev.op \div 4096 = 8 /\ prev.op % 16 = 6
  /\ pc = prev.pc + 2 /\ quirks.shift_vy
  /\ PrevX # 15 /\ PrevY # 15 /\ PrevY # PrevX
  /\ v[PrevY] = 255 /\ v[PrevX] = 127 /\ v[15] = 1

(* Nothing of the machine but the two timers changes. *)
OnlyTimersChange ==
  /\ memory' = memory /\ v' = v /\ pc' = pc /\ i' = i /\ stack' = stack
  /\ sp' = sp /\ display' = display /\ quirks' = quirks
  /\ panicked' = panicked

(* C12: update_timers decrements timer_delay by 1 if it is greater than 0  *)
(* and leaves it at 0 otherwise, does the same independently for           *)
(* timer_sound and changes nothing else; neither timer goes below 0 or     *)
(* wraps to 255.                                                           *)
C12_TimersCountDownToZero ==
  [][last_call' = "update_timers" =>
       (/\ timer_delay' = (IF timer_delay > 0 THEN timer_delay - 1 ELSE 0)
        /\ timer_sound' = (IF timer_sound > 0 THEN timer_sound - 1 ELSE 0)
        /\ timer_delay' \in 0..timer_delay /\ timer_sound' \in 0..timer_sound
        /\ OnlyTimersChange)]_vars

C12_Witness ==
  /\ last_call = "update_timers" /\ timer_delay = 0 /\ timer_sound = 2
  /\ written.delay = 1 /\ elapsed.delay = 1

(* C13: a tick changes timer_delay only by Fx15 (to register x) and        *)
(* timer_sound only by Fx18 (to register x); so a timer written with v     *)
(* holds max(v - m, 0) after m update_timers calls, however many ticks     *)
(* ran in between.                                                         *)
C13_TimersIndependentOfTicks ==
  [][/\ last_call' = "tick" =>
          (/\ timer_delay' = (IF FetchOk /\ Fetched \div 4096 = 15 /\ KK = 21
                              THEN v[X] ELSE timer_delay)
           /\ timer_sound' = (IF FetchOk /\ Fetched \div 4096 = 15 /\ KK = 24
                              THEN v[X] ELSE timer_sound))
     /\ timer_delay' = written'.delay - elapsed'.delay
     /\ timer_sound' = written'.sound - elapsed'.sound]_vars

C13_Witness ==
  /\ last_call = "tick" /\ prev.op \div 4096 = 1
  /\ written.delay = 3 /\ elapsed.delay = 1 /\ timer_delay = 2
  /\ written.sound = 3 /\ elapsed.sound = 0 /\ timer_sound = 3

N == Fetched % 16

(* The step executes a Dxyn to completion. *)
Draws == ExecutesGroup(13) /\ ~panicked'

(* The sprite bits that are set, as <<row, column>> with the               *)
(* most-significant bit of a sprite byte as column 0.                      *)
SetBits ==
  { rc \in (0..(N - 1)) \X (0..7) : Bit(Byte(memory, i + rc[1]), 7 - rc[2]) = 1 }

(* The pixel a sprite bit addresses. *)
Target(rc) == (v[X] + rc[2] + (v[Y] + rc[1]) * 64) % DISPLAY_LEN

Targets == { Target(rc) : rc \in SetBits }

C15_DrawTogglesTargets ==
  [][ExecutesGroup(13) =>
       (/\ Targets \subseteq 0..(DISPLAY_LEN - 1)
        /\ Cardinality(Targets) = Cardinality(SetBits)
        /\ display' = (display \ Targets) \cup (Targets \ display)
        /\ v'[15] = (IF Targets \cap display # {} THEN 1 ELSE 0)
        /\ \A r \in 0..(V_LEN - 2) : v'[r] = v[r]
        /\ pc' = pc + 2
        /\ memory' = memory /\ i' = i /\ stack' = stack /\ sp' = sp
        /\ timer_delay' = timer_delay /\ timer_sound' = timer_sound
        /\ quirks' = quirks /\ panicked' = panicked)]_vars

(* C16: a tick of any instruction word other than exactly 00E0 and the     *)
(* Dxyn family leaves the display unchanged; update_timers and load_rom    *)
(* never change the display; 00E0 sets every pixel to 0.                   *)
C16_DisplayOnlyByClearAndDraw ==
  [][/\ (TickStep /\ Fetched # 224 /\ Fetched \div 4096 # 13) => display' = display
     /\ last_call' \in {"update_timers", "load_rom"} => display' = display
     /\ Executes(224) => display' = {}]_vars

(* The patterns execute_opcode names in its arms. *)
Recognised(op) ==
  LET first_nibble  == (op \div 4096) % 16
      fourth_nibble == op % 16
      kk            == op % 256
  IN  \/ op \in {224, 238}
      \/ first_nibble \in {1, 2, 3, 4, 6, 7, 10, 11, 12, 13}
      \/ first_nibble \in {5, 9} /\ fourth_nibble = 0
      \/ first_nibble = 8 /\ fourth_nibble \in (0..7) \cup {14}
      \/ first_nibble = 14 /\ kk \in {158, 161}
      \/ first_nibble = 15 /\ kk \in {7, 10, 21, 24, 30, 41, 51, 85, 101}

(* C17: a tick of an instruction word that matches no pattern changes      *)
(* nothing but the program counter, which advances by 2: registers, index, *)
(* memory, stack, depth, timers and display are unchanged.                 *)
C17_UnrecognisedIsNoOp ==
  [][(TickStep /\ ~Recognised(Fetched)) => (pc' = pc + 2 /\ OnlyPcChanges)]_vars

(* The keys a snapshot reports as pressed. *)
Pressed(keypad) == { k \in 0..(KEYPAD_LEN - 1) : keypad[k] # 0 }

(* The previous tick executed an Fx0A and left the program counter on it. *)
Waiting == prev.op \div 4096 = 15 /\ PrevKK = 10 /\ prev.pc = pc

(* C18: a tick that executes Fx0A with no key pressed leaves the whole     *)
(* machine state as it was, the program counter back on that Fx0A, so the  *)
(* next tick fetches the same Fx0A again; update_timers calls during the   *)
(* wait still count the timers down.                                       *)
C18_WaitRepeatsWithoutKey ==
  [][/\ \A keypad \in Keypads :
          (ExecutesGroup(15) /\ KK = 10 /\ Pressed(keypad) = {} /\ Tick(keypad)) =>
            /\ pc' = pc /\ OnlyPcChanges
            /\ Waiting' /\ prev'.pc = pc /\ Fetched' = Fetched
     /\ (Waiting /\ last_call' = "update_timers") =>
          /\ timer_delay' = (IF timer_delay > 0 THEN timer_delay - 1 ELSE 0)
          /\ timer_sound' = (IF timer_sound > 0 THEN timer_sound - 1 ELSE 0)
          /\ Waiting']_vars

C18_Witness ==
  /\ last_call = "tick" /\ Waiting /\ PrevX = 1 /\ v[1] = 0
  /\ written.delay = 3 /\ elapsed.delay = 2 /\ timer_delay = 1

(* C19: a tick that executes Fx0A with at least one key pressed sets       *)
(* register x to the highest pressed key index, leaves the program counter *)
(* 2 past the Fx0A, and changes nothing else.                              *)
C19_WaitTakesHighestKey ==
  [][\A keypad \in Keypads :
       (ExecutesGroup(15) /\ KK = 10 /\ Pressed(keypad) # {} /\ Tick(keypad)) =>
         /\ v'[X] \in Pressed(keypad)
         /\ \A k \in Pressed(keypad) : k <= v'[X]
         /\ \A r \in (0..(V_LEN - 1)) \ {X} : v'[r] = v[r]
         /\ pc' = pc + 2
         /\ OnlyRegsAndPcChange]_vars

C19_Witness ==
  /\ last_call = "tick" /\ prev.op \div 4096 = 15 /\ PrevKK = 10
  /\ pc = prev.pc + 2 /\ PrevX = 1 /\ v[1] = 15 /\ v[0] = 3

(* The five font bytes of the digit d. *)
Glyph(d) == SubSeq(FONT_SET, 5 * d + 1, 5 * d + 5)

(* C20: the state new(quirks) returns has all registers, the index, all    *)
(* stack slots, both timers and every pixel zero, depth 0, the program     *)
(* counter at 0x200, the glyph of digit d at 5 * d (the 80 font bytes at   *)
(* 0x000..0x04F) and zero in memory from 0x050 to 0xFFF; the stored quirks *)
(* equal the argument, then and after any tick, update_timers or load_rom. *)
C20_NewStateAndFixedQuirks ==
  /\ quirks = arg_quirks
  /\ last_call = "new" =>
       /\ \A r \in 0..(V_LEN - 1) : v[r] = 0
       /\ i = 0
       /\ \A k \in 0..(STACK_LEN - 1) : stack[k] = 0
       /\ timer_delay = 0 /\ timer_sound = 0
       /\ \A p \in 0..(DISPLAY_LEN - 1) : Pixel(display, p) = 0
       /\ sp = 0
       /\ pc = 512
       /\ \A d \in 0..15 : [k \in 1..5 |-> Byte(memory, 5 * d + k - 1)] = Glyph(d)
       /\ Glyph(0) = << 240, 144, 144, 144, 240 >>
       /\ Glyph(15) = << 240, 128, 240, 128, 128 >>
       /\ \A a \in 80..(MEMORY_LEN - 1) : Byte(memory, a) = 0
       /\ ~panicked

C20_Witness ==
  /\ last_call = "new" /\ arg_quirks.shift_vy /\ quirks.shift_vy
  /\ Byte(memory, 79) = 128 /\ pc = ROM_START

(* C21: load_rom(data) never faults; it sets memory[0x200 + k] = data[k]   *)
(* for exactly the k with 0x200 + k <= 0xFFF, discards the other bytes,    *)
(* and leaves memory below 0x200 (the font included) and the rest of the   *)
(* machine state unchanged.                                                *)
C21_LoadRomCopiesWhatFits ==
  [][last_call' = "load_rom" =>
       /\ ~panicked'
       /\ DOMAIN memory' \subseteq 0..(MEMORY_LEN - 1)
       /\ \A a \in 0..(MEMORY_LEN - 1) :
            Byte(memory', a) =
              (IF a >= 512 /\ a - 512 < Len(arg_data')
               THEN arg_data'[a - 512 + 1] ELSE Byte(memory, a))
       /\ \A a \in 0..79 : Byte(memory', a) = FONT_SET[a + 1]
       /\ v' = v /\ pc' = pc /\ i' = i /\ stack' = stack /\ sp' = sp
       /\ timer_delay' = timer_delay /\ timer_sound' = timer_sound
       /\ display' = display /\ quirks' = quirks]_vars

C21_Witness ==
  /\ last_call = "load_rom" /\ Len(arg_data) = 3586
  /\ arg_data[3584] = 255 /\ Byte(memory, 4095) = 255
  /\ arg_data[3585] = 255 /\ 4096 \notin DOMAIN memory
  /\ Byte(memory, 512) = 18 /\ Byte(memory, 0) = 240

(* C22: for every value num of register x and every index I with          *)
(* I + 2 <= 0xFFF, Fx33 writes memory[I] = num div 100, memory[I + 1] =    *)
(* (num div 10) mod 10 and memory[I + 2] = num mod 10, each a digit 0..9   *)
(* that together spell num, and changes no other memory byte, no register  *)
(* and not the index.                                                      *)
C22_StoresDecimalDigits ==
  [][(ExecutesGroup(15) /\ KK = 51 /\ i + 2 <= 4095) =>
       /\ Byte(memory', i) = v[X] \div 100
       /\ Byte(memory', i + 1) = (v[X] \div 10) % 10
       /\ Byte(memory', i + 2) = v[X] % 10
       /\ \A k \in 0..2 : Byte(memory', i + k) \in 0..9
       /\ 100 * Byte(memory', i) + 10 * Byte(memory', i + 1) + Byte(memory', i + 2) = v[X]
       /\ \A a \in (0..(MEMORY_LEN - 1)) \ {i, i + 1, i + 2} :
            Byte(memory', a) = Byte(memory, a)
       /\ DOMAIN memory' \subseteq 0..(MEMORY_LEN - 1)
       /\ v' = v /\ i' = i /\ ~panicked']_vars

C22_Witness ==
  /\ last_call = "tick" /\ prev.op \div 4096 = 15 /\ PrevKK = 51
  /\ i = 4093 /\ v[PrevX] = 255 /\ ~panicked
  /\ Byte(memory, 4093) = 2 /\ Byte(memory, 4094) = 5 /\ Byte(memory, 4095) = 5

(* C23: timer cadence is independent of instruction cadence: when the      *)
(* target cycles per second differs between two consecutive timer          *)
(* decrements, so does the number of instruction cycles run before each.   *)
C23_TimerCadenceFollowsRate ==
  [][(host_at = "timers" /\ host_at' = "input"
        /\ observed.rate # 0 /\ observed'.rate # observed.rate) =>
       observed'.cycles # observed.cycles]_vars

(* The machine is about to execute an Fx0A. *)
AtWait ==
  /\ last_call # "new" /\ ~panicked
  /\ FetchOk /\ Fetched \div 4096 = 15 /\ Fetched % 256 = 10

(* The last cycle executed an Fx0A and went past it with register x        *)
(* holding a key that is pressed in the snapshot of that cycle.            *)
PastWait ==
  /\ last_call = "tick" /\ prev.op \div 4096 = 15 /\ PrevKK = 10
  /\ pc = prev.pc + 2
  /\ v[PrevX] \in Pressed(snapshot)

(* C24: while the host keeps invoking tick and some snapshot has a key     *)
(* pressed, a machine at an Fx0A eventually advances past it with register *)
(* x holding a key pressed in the snapshot of the cycle that completed the *)
(* wait; a cycle whose snapshot has no key pressed leaves the machine on   *)
(* the Fx0A, whatever key went down and up since the snapshot before.      *)
C24_WaitEndsOnSnapshotKey ==
  /\ AtWait ~> PastWait
  /\ [][(AtWait /\ host_at = "cycle" /\ host_at' = "timers") =>
          IF Pressed(snapshot') = {}
          THEN pc' = pc /\ v' = v /\ AtWait'
          ELSE pc' = pc + 2 /\ v'[X] \in Pressed(snapshot') /\ PastWait']_vars

C24_Witness ==
  /\ PastWait /\ overlooked /\ PrevX = 1 /\ v[1] = 15
  /\ Pressed(snapshot) = {2, 15}
  /\ written.sound = 3 /\ timer_sound = 0

(* Register files that differ from any the programs produce. *)
Clobbers == { [r \in 0..(V_LEN - 1) |-> c] : c \in {0, 90, 255} }

(* C25: for every x and every index I with I + x <= 0xFFF, Fx55 writes     *)
(* memory[I + k] = register k for exactly the k in 0..x and no other byte; *)
(* Fx65 sets register k = memory[I + k] for exactly the k in 0..x and no   *)
(* register above x; neither changes the index; and Fx65 with the same x   *)
(* after an Fx55, whatever registers 0..x were changed to in between,      *)
(* gives registers 0..x the values they had at the Fx55.                   *)
C25_StoreAndLoadRegisters ==
  [][/\ (ExecutesGroup(15) /\ KK = 85 /\ i + X <= 4095) =>
          /\ \A a \in 0..(MEMORY_LEN - 1) :
               Byte(memory', a) =
                 (IF a \in i..(i + X) THEN v[a - i] ELSE Byte(memory, a))
          /\ DOMAIN memory' \subseteq 0..(MEMORY_LEN - 1)
          /\ v' = v /\ i' = i /\ ~panicked'
          /\ \A keypad \in Keypads, w \in Clobbers :
               \A stored \in execute_opcode(Self, Fetched, keypad) :
                 /\ stored.memory = memory' /\ stored.i = i'
                 /\ \A loaded \in execute_opcode([stored EXCEPT !.v = w],
                                                 Fetched + 16, keypad) :
                      /\ \A k \in 0..X : loaded.v[k] = v[k]
                      /\ \A k \in (X + 1)..(V_LEN - 1) : loaded.v[k] = w[k]
     /\ (ExecutesGroup(15) /\ KK = 101 /\ i + X <= 4095) =>
          /\ \A k \in 0..(V_LEN - 1) :
               v'[k] = (IF k <= X THEN Byte(memory, i + k) ELSE v[k])
          /\ memory' = memory /\ i' = i /\ ~panicked']_vars

C25_Witness ==
  /\ last_call = "tick" /\ prev.op = 61541 + 256 /\ pc = prev.pc + 2 /\ ~panicked
  /\ i = 4094 /\ Byte(memory, 4094) = 7 /\ Byte(memory, 4095) = 255
  /\ v[0] = 7 /\ v[1] = 255 /\ v[15] = 51

(* The state after the fetch of the instruction about to run. *)
AfterFetch == [Self EXCEPT !.pc = pc + 2]

(* C26: for every value of register x and every key snapshot, Ex9E and     *)
(* ExA1 look up a key inside the 16-key snapshot and complete; Ex9E skips  *)
(* (program counter 2 beyond the fetch advance) exactly when that key is   *)
(* pressed and ExA1 exactly when it is not, so exactly one of the two      *)
(* would skip; neither changes anything but the program counter.           *)
C26_KeySkipsComplementary ==
  [][\A keypad \in Keypads :
       (ExecutesGroup(14) /\ KK \in {158, 161} /\ Tick(keypad)) =>
         /\ v[X] \in 0..(KEYPAD_LEN - 1)
         /\ ~panicked'
         /\ KK = 158 => pc' = (IF keypad[v[X]] # 0 THEN pc + 4 ELSE pc + 2)
         /\ KK = 161 => pc' = (IF keypad[v[X]] = 0 THEN pc + 4 ELSE pc + 2)
         /\ (OpEx9E(AfterFetch, X, keypad).pc = pc + 4)
              # (OpExA1(AfterFetch, X, keypad).pc = pc + 4)
         /\ OnlyPcChanges]_vars

====
